---- MODULE Spec2Model ----
(***************************************************************************)
(* Model of the snake robot of src/main.py: the GameState of the grid game *)
(* (clone, do_move, get_moves, get_result), the search tree Node and the   *)
(* UCT search loop.                                                        *)
(*                                                                         *)
(* Python lists and deques are mutable objects reached through references, *)
(* so the model keeps them in a heap: a GameState is a record of heap      *)
(* locations (terrain, players, last_action, scores) plus its own integer  *)
(* attribute playerJustMoved.  Two GameState objects alias each other      *)
(* exactly when they hold the same location.                               *)
(***************************************************************************)
EXTENDS Integers, Sequences, FiniteSets, TLC

VARIABLES
    heap,       \* location -> the list object stored there
    rootstate,  \* the GameState handed to UCT (a record of locations)
    state,      \* UCT's working GameState of the current iteration
    nodes,      \* the search tree: sequence of Node records, root is 1
    node,       \* UCT's local `node` (index into nodes, 0 is None)
    i,          \* UCT's loop counter over range(itermax)
    j,          \* UCT's rollout counter over range(maxdepth)
    itermax,    \* UCT argument
    maxdepth,   \* UCT argument
    pc,         \* position in UCT / in the driver of the game operations
    ret,        \* the value UCT returned (NoVector before it returns)
    scan,       \* the robot's scan of the world: the loop locals of
                \* next_direction and the snakes the server has drawn
    hist        \* history: what an observer recorded along the run

vars == <<heap, rootstate, state, nodes, node, i, j, itermax, maxdepth, pc, ret, scan,
          hist>>

---------------------------------------------------------------------------
\* Bounds of the model.

\* largest iteration budget (itermax) tried
MaxIter == 5
\* largest rollout depth budget (maxdepth) tried
MaxDepth == 2
\* number of do_move calls the game driver makes at most
MaxMoves == 4
\* longest chain the walk of _find_snake_rest is followed to
MaxWalk == 7
\* number of frames the server draws after the first decision
MaxFrames == 2

---------------------------------------------------------------------------
\* Positions, vectors and the symbols of the world.

Pos(x, y) == [x |-> x, y |-> y]
Vec(dx, dy) == [xdir |-> dx, ydir |-> dy]

\* Python's None where a Vector is expected (last_action slots, Node.move of
\* the root, the result before UCT returns).
NoVector == Vec(0, 0)

UP == Vec(0, -1)
DOWN == Vec(0, 1)
LEFT == Vec(-1, 0)
RIGHT == Vec(1, 0)

Actions == {UP, DOWN, LEFT, RIGHT}

\* The symbols of snakepit's RobotSnake that main.py reads.
CH_VOID == " "
CH_STONE == "#"
CH_HEAD == "@"
CH_BODY == "*"
CH_TAIL == "$"
DEAD_BODY_CHARS == {"x", "%"}
Numerals == {"0", "1", "2", "3", "4", "5", "6", "7", "8", "9"}

\* str.isnumeric() on a one-character cell symbol
IsNumeric(char) == char \in Numerals

\* int(char) for a numeral
IntOf(char) ==
    CASE char = "0" -> 0 [] char = "1" -> 1 [] char = "2" -> 2 [] char = "3" -> 3
      [] char = "4" -> 4 [] char = "5" -> 5 [] char = "6" -> 6 [] char = "7" -> 7
      [] char = "8" -> 8 [] char = "9" -> 9

\* the set of symbols do_move scores as an obstacle
ObstacleChars == {CH_STONE, "-", "|", "+"} \cup DEAD_BODY_CHARS

\* colors: the robot's own color and another snake's
MyColor == 1
OtherColor == 2
NoColor == 0

Cell(char, color) == <<char, color>>

---------------------------------------------------------------------------
\* The terrain: a list of columns, each a list of cells, read as terrain[x][y].

VoidCell == Cell(CH_VOID, NoColor)

\* a W x H world, void except for the cells of `over` (position -> cell)
MakeTerrain(W, H, over) ==
    [x \in 0..(W - 1) |->
        [y \in 0..(H - 1) |->
            IF Pos(x, y) \in DOMAIN over THEN over[Pos(x, y)] ELSE VoidCell]]

SIZE_X(t) == Cardinality(DOMAIN t)
SIZE_Y(t) == Cardinality(DOMAIN t[0])

\* Python list indexing lst[k] on a list of length n: an index in -n..-1
\* counts from the end, an index outside -n..n-1 raises IndexError.
PyIndexOK(n, k) == k >= -n /\ k < n
PyIndex(n, k) == IF k < 0 THEN k + n ELSE k

InGrid(t, p) == p.x >= 0 /\ p.x < SIZE_X(t) /\ p.y >= 0 /\ p.y < SIZE_Y(t)

\* terrain[p.x][p.y] does not raise
TerrainReadOK(t, p) == PyIndexOK(SIZE_X(t), p.x) /\ PyIndexOK(SIZE_Y(t), p.y)

\* the cell terrain[p.x][p.y] yields
TerrainAt(t, p) == t[PyIndex(SIZE_X(t), p.x)][PyIndex(SIZE_Y(t), p.y)]

---------------------------------------------------------------------------
\* The heap and the GameState objects.

Locs == 1..7

\* what a location holds before anything is stored there
Unused == <<>>

\* no GameState bound yet (UCT's `state` before the first iteration)
NoState == [terrain |-> 0, players |-> 0, last_action |-> 0, scores |-> 0,
            playerJustMoved |-> 1]

\* the locations a GameState object refers to
Refs(self) == {self.terrain, self.players, self.last_action, self.scores}

\* the k-th lowest location outside `used`
RECURSIVE Fresh(_, _)
Fresh(used, k) ==
    LET l == CHOOSE a \in Locs \ used : \A b \in Locs \ used : a <= b
    IN  IF k = 1 THEN l ELSE Fresh(used \cup {l}, k - 1)

\* GameState.__init__: two new lists, playerJustMoved = 1
GameStateInit(h, terrain, players, la, sc) ==
    [heap |-> [h EXCEPT ![la] = <<NoVector, NoVector>>, ![sc] = <<0, 0>>],
     st   |-> [terrain |-> terrain, players |-> players, last_action |-> la,
               scores |-> sc, playerJustMoved |-> 1]]

\* GameState.clone with the chains shared instead of deep-copied
CloneSharedPlayers(h, self) ==
    LET la == Fresh(Refs(self), 1)
        sc == Fresh(Refs(self), 2)
        h1 == [l \in Locs |-> IF l \in Refs(self) THEN h[l] ELSE Unused]
        g  == GameStateInit(h1, self.terrain, self.players, la, sc)
    IN  [heap |-> [g.heap EXCEPT ![la] = h[self.last_action],
                                 ![sc] = h[self.scores]],
         st   |-> g.st]

\* GameState.clone: the terrain by reference, a deep copy of the chains, and
\* slice copies of last_action and scores.  The object previously bound to
\* the target name is released by the assignment, so its locations are
\* reused.
Clone(h, self) ==
    LET pl == Fresh(Refs(self), 1)
        la == Fresh(Refs(self), 2)
        sc == Fresh(Refs(self), 3)
        h1 == [l \in Locs |-> IF l \in Refs(self) THEN h[l] ELSE Unused]
        h2 == [h1 EXCEPT ![pl] = h[self.players]]
        g  == GameStateInit(h2, self.terrain, pl, la, sc)
    IN  [heap |-> [g.heap EXCEPT ![la] = h[self.last_action],
                                 ![sc] = h[self.scores]],
         st   |-> g.st]

\* Vector(-action.xdir, -action.ydir)
OppositeAction(action) == Vec(-action.xdir, -action.ydir)

\* GameState._collides_with_player: position in any tracked chain
CollidesWithPlayer(h, self, position) ==
    \E k \in 1..Len(h[self.players]) :
        \E n \in 1..Len(h[self.players][k]) : h[self.players][k][n] = position

\* get_moves consulting the agent that has just moved
MovesPlayerJustMoved(h, self) ==
    IF Len(h[self.players]) > 1 THEN self.playerJustMoved ELSE 0

\* the agent get_moves takes to be moving next
MovesPlayerMoving(h, self) ==
    IF Len(h[self.players]) > 1 THEN 1 - self.playerJustMoved ELSE 0

\* GameState.get_moves
GetMoves(h, self) ==
    LET player_moving == MovesPlayerMoving(h, self)
        last == h[self.last_action][player_moving + 1]
    IN  IF last # NoVector THEN Actions \ {OppositeAction(last)} ELSE Actions

\* get_result answering for the agent that moved last on the state, not for
\* the agent asked about
GetResultOfMover(h, self, playerjm) == h[self.scores][self.playerJustMoved + 1]

\* GameState.get_result
GetResult(h, self, playerjm) == h[self.scores][playerjm + 1]

\* do_move without the turn flip: agent 0 moves on every call
DoMovePlayerZero(h, self) == 0

\* the agent do_move moves, and the playerJustMoved it leaves
DoMovePlayer(h, self) ==
    IF Len(h[self.players]) > 1 THEN 1 - self.playerJustMoved ELSE 0

\* do_move testing the collision after the tail has been popped: the moving
\* agent's own tail cell counts as free
DoMoveScoreTailFree(h, self, old, new_head) ==
    LET char   == TerrainAt(h[self.terrain], new_head)[1]
        mover  == h[self.players][self.playerJustMoved + 1]
        others == \E k \in 1..Len(h[self.players]) :
                     \E n \in 1..Len(h[self.players][k]) :
                        /\ h[self.players][k][n] = new_head
                        /\ ~(k = self.playerJustMoved + 1 /\ n = Len(mover))
    IN  IF others THEN -1000
        ELSE IF IsNumeric(char) THEN old + IntOf(char)
        ELSE IF char \in ObstacleChars THEN -1000
        ELSE old

\* the score do_move leaves for the moving agent (self.playerJustMoved is
\* already the moving agent when the score is computed)
DoMoveScore(h, self, old, new_head) ==
    LET char == TerrainAt(h[self.terrain], new_head)[1]
    IN  IF CollidesWithPlayer(h, self, new_head) THEN -1000
        ELSE IF IsNumeric(char) THEN old + IntOf(char)
        ELSE IF char \in ObstacleChars THEN -1000
        ELSE old

\* appendleft(new_head) without the pop(): the chain grows
DoMoveChainNoPop(chain, new_head) == <<new_head>> \o chain

\* the chain after appendleft(new_head) and pop()
DoMoveChain(chain, new_head) == SubSeq(<<new_head>> \o chain, 1, Len(chain))

\* GameState.do_move.  raised is TRUE when the terrain read raises
\* IndexError: playerJustMoved and last_action are already written by then,
\* scores and chains are not.
DoMove(h, self, move) ==
    LET player_moving == DoMovePlayer(h, self)
        k        == player_moving + 1
        st1      == [self EXCEPT !.playerJustMoved = player_moving]
        h1       == [h EXCEPT ![self.last_action][k] = move]
        player   == h1[self.players][k]
        head     == player[1]
        new_head == Pos(head.x + move.xdir, head.y + move.ydir)
    IN  IF ~TerrainReadOK(h1[self.terrain], new_head)
        THEN [heap |-> h1, st |-> st1, raised |-> TRUE]
        ELSE [heap |-> [h1 EXCEPT
                          ![self.scores][k] =
                              DoMoveScore(h1, st1, h1[self.scores][k], new_head),
                          ![self.players][k] = DoMoveChain(player, new_head)],
              st |-> st1, raised |-> FALSE]

---------------------------------------------------------------------------
\* The search tree.

\* Node.__init__
NodeInit(h, move, parent, st) ==
    [move |-> move, parentNode |-> parent, childNodes |-> <<>>,
     wins |-> 0, visits |-> 0,
     untriedMoves |-> GetMoves(h, st),
     playerJustMoved |-> st.playerJustMoved]

\* Fixed-point arithmetic for the UCB1 value: Scale units make 1.
Scale == 10000

\* log(n) in Scale units, rounded to nearest
LnScaled(n) ==
    CASE n = 1 -> 0      [] n = 2 -> 6931   [] n = 3 -> 10986  [] n = 4 -> 13863
      [] n = 5 -> 16094  [] n = 6 -> 17918  [] n = 7 -> 19459  [] n = 8 -> 20794
      [] n = 9 -> 21972  [] n = 10 -> 23026 [] n = 11 -> 23979 [] n = 12 -> 24849

\* floor of the square root, by bisection on lo..hi
RECURSIVE SqrtIn(_, _, _)
SqrtIn(n, lo, hi) ==
    IF lo = hi THEN lo
    ELSE LET mid == (lo + hi + 1) \div 2
         IN  IF mid * mid <= n THEN SqrtIn(n, mid, hi) ELSE SqrtIn(n, lo, mid - 1)

ISqrt(n) == SqrtIn(n, 0, 32768)

\* sqrt(2*log(self.visits)/c.visits) in Scale units
Explore(pvisits, cvisits) == ISqrt((2 * LnScaled(pvisits) * Scale) \div cvisits)

\* value(a) > value(b), where value(c) = c.wins/c.visits + Explore, compared
\* with the quotient wins/visits kept exact (cross-multiplied)
ValueGreater(pvisits, a, b) ==
    a.wins * b.visits * Scale + Explore(pvisits, a.visits) * a.visits * b.visits
  > b.wins * a.visits * Scale + Explore(pvisits, b.visits) * a.visits * b.visits

\* the loop of uct_select_child over childNodes[k..], best so far in `best`
\* (0 stands for max_value = -inf, max_node = 0)
RECURSIVE SelectFrom(_, _, _, _)
SelectFrom(ns, n, k, best) ==
    IF k > Len(ns[n].childNodes) THEN best
    ELSE LET c == ns[n].childNodes[k]
         IN  IF best = 0 \/ ValueGreater(ns[n].visits, ns[c], ns[best])
             THEN SelectFrom(ns, n, k + 1, c)
             ELSE SelectFrom(ns, n, k + 1, best)

\* uct_select_child raises: c.visits = 0 divides by zero, log(0) is a math
\* domain error
SelectRaises(ns, n) ==
    Len(ns[n].childNodes) > 0
    /\ (ns[n].visits = 0
        \/ \E k \in 1..Len(ns[n].childNodes) : ns[ns[n].childNodes[k]].visits = 0)

\* Node.uct_select_child
UctSelectChild(ns, n) == SelectFrom(ns, n, 1, 0)

\* add_child that leaves the tried move in untriedMoves
AddChildKeepUntried(ns, n, m, h, s) ==
    LET new == Len(ns) + 1
    IN  Append([ns EXCEPT ![n].childNodes = Append(@, new)],
               NodeInit(h, m, n, s))

\* Node.add_child: the tree with the new node appended, m removed from the
\* parent's untriedMoves and the new node appended to its childNodes
AddChild(ns, n, m, h, s) ==
    LET new == Len(ns) + 1
    IN  Append([ns EXCEPT ![n].untriedMoves = @ \ {m},
                          ![n].childNodes = Append(@, new)],
               NodeInit(h, m, n, s))

\* the walk up stopping after the first node
ParentOfNone(ns, n) == 0

\* node.parentNode
ParentOf(ns, n) == ns[n].parentNode

\* update that adds the result without counting the visit
UpdateWinsOnly(nd, result) == [nd EXCEPT !.wins = @ + result]

\* Node.update
Update(nd, result) == [nd EXCEPT !.visits = @ + 1, !.wins = @ + result]

\* the insertion of an unstable sort: c goes before the elements of equal
\* visits
RECURSIVE InsertByVisitsBefore(_, _, _)
InsertByVisitsBefore(ns, srt, c) ==
    IF srt = <<>> THEN <<c>>
    ELSE IF ns[srt[Len(srt)]].visits < ns[c].visits THEN Append(srt, c)
    ELSE Append(InsertByVisitsBefore(ns, SubSeq(srt, 1, Len(srt) - 1), c),
                srt[Len(srt)])

\* insert c into the ascending list srt after every element whose visits
\* are not greater (a stable sort keeps equal keys in their original order)
RECURSIVE InsertByVisits(_, _, _)
InsertByVisits(ns, srt, c) ==
    IF srt = <<>> THEN <<c>>
    ELSE IF ns[srt[Len(srt)]].visits <= ns[c].visits THEN Append(srt, c)
    ELSE Append(InsertByVisits(ns, SubSeq(srt, 1, Len(srt) - 1), c), srt[Len(srt)])

\* sorted(children, key = lambda c: c.visits)
RECURSIVE SortedByVisits(_, _)
SortedByVisits(ns, children) ==
    IF children = <<>> THEN <<>>
    ELSE InsertByVisits(ns,
                        SortedByVisits(ns, SubSeq(children, 1, Len(children) - 1)),
                        children[Len(children)])

\* sorted(root_node.childNodes, key = lambda c: c.visits)[-1].move
BestMove(ns) ==
    LET srt == SortedByVisits(ns, ns[1].childNodes)
    IN  ns[srt[Len(srt)]].move

---------------------------------------------------------------------------
\* The worlds and chains the search is started from.

\* 3x3 open grid, one agent, chain of length 1 at the center
OpenWorld ==
    [terrain |-> MakeTerrain(3, 3, Pos(1, 1) :> Cell(CH_HEAD, MyColor)),
     players |-> << <<Pos(1, 1)>> >>]

\* 3x3 grid, one agent of two cells whose head at the center has its own
\* tail above it and stones on the other three sides; a numeral in a corner
TrappedWorld ==
    [terrain |-> MakeTerrain(3, 3,
                    Pos(1, 1) :> Cell(CH_HEAD, MyColor)
                 @@ Pos(1, 0) :> Cell(CH_TAIL, MyColor)
                 @@ Pos(0, 1) :> Cell(CH_STONE, NoColor)
                 @@ Pos(2, 1) :> Cell(CH_STONE, NoColor)
                 @@ Pos(1, 2) :> Cell(CH_STONE, NoColor)
                 @@ Pos(2, 2) :> Cell("5", NoColor)),
     players |-> << <<Pos(1, 1), Pos(1, 0)>> >>]

\* 4x3 grid, two agents of two cells each, a numeral and a stone
DuelWorld ==
    [terrain |-> MakeTerrain(4, 3,
                    Pos(1, 1) :> Cell(CH_HEAD, MyColor)
                 @@ Pos(0, 1) :> Cell(CH_TAIL, MyColor)
                 @@ Pos(2, 1) :> Cell(CH_HEAD, OtherColor)
                 @@ Pos(3, 1) :> Cell(CH_TAIL, OtherColor)
                 @@ Pos(1, 0) :> Cell("3", NoColor)
                 @@ Pos(2, 2) :> Cell(CH_STONE, NoColor)),
     players |-> << <<Pos(1, 1), Pos(0, 1)>>, <<Pos(2, 1), Pos(3, 1)>> >>]

Worlds == {OpenWorld, TrappedWorld, DuelWorld}

\* 3x3 grid, one agent of five cells coiled around its head: the cell left of
\* the head is its fourth cell
CoiledWorld ==
    [terrain |-> MakeTerrain(3, 3,
                    Pos(1, 1) :> Cell(CH_HEAD, MyColor)
                 @@ Pos(1, 0) :> Cell(CH_BODY, MyColor)
                 @@ Pos(0, 0) :> Cell(CH_BODY, MyColor)
                 @@ Pos(0, 1) :> Cell(CH_BODY, MyColor)
                 @@ Pos(0, 2) :> Cell(CH_TAIL, MyColor)),
     players |-> << <<Pos(1, 1), Pos(1, 0), Pos(0, 0), Pos(0, 1), Pos(0, 2)>> >>]

\* the worlds the game operations are driven on
GameWorlds == Worlds \cup {CoiledWorld}

\* the heap after next_direction has built GameState(self.world, self._players)
RootHeap(w) ==
    GameStateInit([l \in Locs |-> IF l = 1 THEN w.terrain
                                  ELSE IF l = 2 THEN w.players ELSE Unused],
                  1, 2, 3, 4)

\* what a GameState object holds, by value
Value(h, self) ==
    [players |-> h[self.players], last_action |-> h[self.last_action],
     scores |-> h[self.scores], playerJustMoved |-> self.playerJustMoved,
     terrain |-> h[self.terrain]]

\* The history record at the start of a run: the root state's value, the
\* node each iteration's back-propagation started from and the scores of the
\* working state at that moment (finals), the last operation
\* a step ran (op), on which object (tgt), with which move, the number of
\* do_move calls made on the working state since it was cloned (moves), and
\* the exception that ended the run.
Hist0(h, root) ==
    [root0 |-> Value(h, root), leaves |-> <<>>, finals |-> <<>>, op |-> "none",
     tgt |-> "none", move |-> NoVector, moves |-> 0, error |-> "none"]

---------------------------------------------------------------------------
\* MyRobotSnake: the scan of the world for the snakes.

\* Python's None where a Position is expected
NonePos == Pos(-99, -99)

\* _neighbours(position), in the order the list is built
NeighbourSeq(p) ==
    <<Pos(p.x + 1, p.y), Pos(p.x - 1, p.y), Pos(p.x, p.y + 1), Pos(p.x, p.y - 1)>>

\* the head cells of the robot's color (own) or of any other color
HeadsOf(t, own) ==
    {p \in {Pos(x, y) : x \in 0..(SIZE_X(t) - 1), y \in 0..(SIZE_Y(t) - 1)} :
        /\ TerrainAt(t, p)[1] = CH_HEAD
        /\ (TerrainAt(t, p)[2] = MyColor) = own}

\* the head the scan keeps: the last one met scanning x outermost, y innermost
LastScanned(S) ==
    IF S = {} THEN NonePos
    ELSE CHOOSE p \in S : \A q \in S : q.x < p.x \/ (q.x = p.x /\ q.y <= p.y)

\* _find_snake_heads()
FindSnakeHeads(t) ==
    LET player_head == LastScanned(HeadsOf(t, TRUE))
        opponent_head == LastScanned(HeadsOf(t, FALSE))
    IN  IF opponent_head # NonePos
        THEN << <<player_head>>, <<opponent_head>> >>
        ELSE << <<player_head>> >>

\* the inner function next(position, previous) of _find_snake_rest, scanning
\* the neighbours from the n-th on: the first body or tail cell of the wanted
\* color that is not `previous`, NonePos when there is none; raised when a
\* read of the world fails before a cell is found
RECURSIVE NextFrom(_, _, _, _, _)
NextFrom(t, position, previous, is_player, n) ==
    IF n > 4 THEN [pos |-> NonePos, raised |-> FALSE]
    ELSE LET q == NeighbourSeq(position)[n]
         IN  IF q = previous THEN NextFrom(t, position, previous, is_player, n + 1)
             ELSE IF ~TerrainReadOK(t, q) THEN [pos |-> NonePos, raised |-> TRUE]
             ELSE IF /\ TerrainAt(t, q)[1] \in {CH_BODY, CH_TAIL}
                     /\ (TerrainAt(t, q)[2] = MyColor) = is_player
                  THEN [pos |-> q, raised |-> FALSE]
                  ELSE NextFrom(t, position, previous, is_player, n + 1)

\* _update_snake_part(old_position, char_to_find, old_color), scanning the
\* four neighbours and then old_position itself from the n-th on: the first
\* cell holding the symbol in the color, NonePos when the loop ends without one
RECURSIVE UpdateFrom(_, _, _, _, _)
UpdateFrom(t, old_position, char_to_find, old_color, n) ==
    IF n > 5 THEN [pos |-> NonePos, raised |-> FALSE]
    ELSE LET q == (NeighbourSeq(old_position) \o <<old_position>>)[n]
         IN  IF ~TerrainReadOK(t, q) THEN [pos |-> NonePos, raised |-> TRUE]
             ELSE IF /\ TerrainAt(t, q)[1] = char_to_find
                     /\ TerrainAt(t, q)[2] = old_color
                  THEN [pos |-> q, raised |-> FALSE]
                  ELSE UpdateFrom(t, old_position, char_to_find, old_color, n + 1)

UpdateSnakePart(t, old_position, char_to_find, old_color) ==
    UpdateFrom(t, old_position, char_to_find, old_color, 1)

\* The body of the loop `for player in self._players` of next_direction on
\* one chain: the chain it leaves and the exception it raised ("none" if it
\* ran to its end).
UpdatePlayer(t, player) ==
    LET old_head == player[1]
    IN  IF old_head = NonePos THEN [player |-> player, error |-> "AttributeError"]
        ELSE IF ~TerrainReadOK(t, old_head) THEN [player |-> player, error |-> "IndexError"]
        ELSE
        LET color == TerrainAt(t, old_head)[2]
            head == UpdateSnakePart(t, player[1], CH_HEAD, color)
            p1 == IF head.pos # player[1] THEN <<head.pos>> \o player ELSE player
        IN  IF head.raised THEN [player |-> player, error |-> "IndexError"]
            ELSE IF p1[Len(p1)] = NonePos THEN [player |-> p1, error |-> "AttributeError"]
            ELSE
            LET tail == UpdateSnakePart(t, p1[Len(p1)], CH_TAIL, color)
                p2 == IF tail.pos # p1[Len(p1)] THEN SubSeq(p1, 1, Len(p1) - 1) ELSE p1
            IN  IF tail.raised THEN [player |-> p1, error |-> "IndexError"]
                ELSE IF p2 = <<>> THEN [player |-> p2, error |-> "IndexError"]
                ELSE IF tail.pos # p2[Len(p2)] THEN [player |-> p2, error |-> "AssertionError"]
                ELSE [player |-> p2, error |-> "none"]

\* the scan before next_direction has run: the snakes the server has drawn
\* (truth: each a chain of cells and a color) and those of the frame before
\* (was), the index k of the chain a loop of next_direction works on, the
\* locals of _find_snake_rest, and the number of frames drawn since the
\* first decision
ScanIdle ==
    [truth |-> <<>>, was |-> <<>>, k |-> 0, position |-> NonePos,
     previous |-> NonePos, snake |-> <<>>, frames |-> 0]

---------------------------------------------------------------------------
\* UCT(rootstate, itermax, maxdepth)

\* The rollout depths tried in world w: every depth up to MaxDepth with one
\* agent, depth 1 with two agents (the two-agent search grows fastest).
Depths(w) == IF Len(w.players) > 1 THEN {1} ELSE 1..MaxDepth

Init ==
    \E w \in Worlds, n \in 1..MaxIter, d \in 1..MaxDepth :
        LET g == RootHeap(w)
        IN  /\ d \in Depths(w)
            /\ heap = g.heap
            /\ rootstate = g.st
            /\ state = NoState
            /\ nodes = <<NodeInit(g.heap, NoVector, 0, g.st)>>
            /\ node = 0
            /\ i = 0
            /\ j = 0
            /\ itermax = n
            /\ maxdepth = d
            /\ pc = "iter"
            /\ ret = NoVector
            /\ scan = ScanIdle
            /\ hist = Hist0(g.heap, g.st)

\* an uncaught exception ends the search
Raise(kind) ==
    /\ pc' = "error"
    /\ hist' = [hist EXCEPT !.error = kind, !.op = "raise"]

\* for i in range(itermax): node = root_node; state = rootstate.clone()
Iterate ==
    /\ pc = "iter"
    /\ i < itermax
    /\ LET c == Clone(heap, rootstate)
       IN  /\ heap' = c.heap
           /\ state' = c.st
    /\ node' = 1
    /\ pc' = "select"
    /\ hist' = [hist EXCEPT !.op = "clone", !.tgt = "state", !.moves = 0]
    /\ UNCHANGED <<rootstate, nodes, i, j, itermax, maxdepth, ret, scan>>

\* the while condition of the selection loop
FullyExpanded(nd) == nd.untriedMoves = {} /\ nd.childNodes # <<>>

\* state.do_move(m) on the working state, as a step of UCT
StateDoMove(m) ==
    LET r == DoMove(heap, state, m)
    IN  /\ heap' = r.heap
        /\ state' = r.st
        /\ hist' = [hist EXCEPT !.op = IF r.raised THEN "do_move_raise" ELSE "do_move",
                                !.tgt = "state", !.move = m, !.moves = @ + 1,
                                !.error = IF r.raised THEN "IndexError" ELSE @]

\* Select: node = node.uct_select_child(); state.do_move(node.move)
Select ==
    /\ pc = "select"
    /\ FullyExpanded(nodes[node])
    /\ IF SelectRaises(nodes, node)
       THEN /\ Raise("ArithmeticError")
            /\ UNCHANGED <<heap, state, node>>
       ELSE LET c == UctSelectChild(nodes, node)
                r == DoMove(heap, state, nodes[c].move)
            IN  /\ node' = c
                /\ StateDoMove(nodes[c].move)
                /\ pc' = IF r.raised THEN "error" ELSE "select"
    /\ UNCHANGED <<rootstate, nodes, i, j, itermax, maxdepth, ret, scan>>

\* Expand: m = random.choice(node.untriedMoves); state.do_move(m);
\* node = node.add_child(m, state)
Expand ==
    /\ pc = "select"
    /\ ~FullyExpanded(nodes[node])
    /\ IF nodes[node].untriedMoves # {}
       THEN \E m \in nodes[node].untriedMoves :
               LET r == DoMove(heap, state, m)
               IN  /\ StateDoMove(m)
                   /\ IF r.raised
                      THEN /\ pc' = "error"
                           /\ UNCHANGED <<nodes, node>>
                      ELSE /\ nodes' = AddChild(nodes, node, m, r.heap, r.st)
                           /\ node' = Len(nodes) + 1
                           /\ pc' = IF maxdepth > 0 THEN "rollout" ELSE "backprop"
       ELSE /\ pc' = IF maxdepth > 0 THEN "rollout" ELSE "backprop"
            /\ hist' = [hist EXCEPT !.op = "none"]
            /\ UNCHANGED <<heap, state, nodes, node>>
    /\ j' = 0
    /\ UNCHANGED <<rootstate, i, itermax, maxdepth, ret, scan>>

\* Rollout: state.do_move(random.choice(state.get_moves())); random.choice
\* of an empty list raises IndexError, which except ValueError lets through
Rollout ==
    /\ pc = "rollout"
    /\ IF GetMoves(heap, state) = {}
       THEN /\ Raise("IndexError")
            /\ UNCHANGED <<heap, state, j>>
       ELSE \E m \in GetMoves(heap, state) :
               LET r == DoMove(heap, state, m)
               IN  /\ StateDoMove(m)
                   /\ j' = j + 1
                   /\ pc' = IF r.raised THEN "error"
                            ELSE IF j + 1 < maxdepth THEN "rollout" ELSE "backprop"
    /\ UNCHANGED <<rootstate, nodes, node, i, itermax, maxdepth, ret, scan>>

\* Back-propagate: node.update(state.get_result(node.playerJustMoved));
\* node = node.parentNode
Backprop ==
    /\ pc = "backprop"
    /\ nodes' = [nodes EXCEPT ![node] =
                    Update(@, GetResult(heap, state, nodes[node].playerJustMoved))]
    /\ node' = ParentOf(nodes, node)
    /\ hist' = [hist EXCEPT !.op = "update",
                            !.leaves = IF Len(@) = i THEN Append(@, node) ELSE @,
                            !.finals = IF Len(@) = i
                                       THEN Append(@, heap[state.scores]) ELSE @]
    /\ IF ParentOf(nodes, node) = 0
       THEN /\ i' = i + 1
            /\ pc' = "iter"
       ELSE /\ i' = i
            /\ pc' = "backprop"
    /\ UNCHANGED <<heap, rootstate, state, j, itermax, maxdepth, ret, scan>>

\* return sorted(root_node.childNodes, key = lambda c: c.visits)[-1].move
Return ==
    /\ pc = "iter"
    /\ i >= itermax
    /\ IF nodes[1].childNodes = <<>>
       THEN /\ Raise("IndexError")
            /\ ret' = ret
       ELSE /\ ret' = BestMove(nodes)
            /\ pc' = "done"
            /\ hist' = [hist EXCEPT !.op = "return"]
    /\ UNCHANGED <<heap, rootstate, state, nodes, node, i, j, itermax, maxdepth, scan>>

Next == Iterate \/ Select \/ Expand \/ Rollout \/ Backprop \/ Return

Spec == Init /\ [][Next]_vars

---------------------------------------------------------------------------
\* The GameState operations driven directly: any interleaving of clone() of
\* the original and do_move on the original or on its latest clone, every
\* move taken from get_moves() as all callers do.  The variable i counts the
\* do_move calls made.

InitGame ==
    \E w \in GameWorlds :
        LET g == RootHeap(w)
        IN  /\ heap = g.heap
            /\ rootstate = g.st
            /\ state = NoState
            /\ nodes = <<NodeInit(g.heap, NoVector, 0, g.st)>>
            /\ node = 0
            /\ i = 0
            /\ j = 0
            /\ itermax = 0
            /\ maxdepth = 0
            /\ pc = "game"
            /\ ret = NoVector
            /\ scan = ScanIdle
            /\ hist = Hist0(g.heap, g.st)

\* state = rootstate.clone()
GameClone ==
    /\ pc = "game"
    /\ LET c == Clone(heap, rootstate)
       IN  /\ heap' = c.heap
           /\ state' = c.st
    /\ hist' = [hist EXCEPT !.op = "clone", !.tgt = "state", !.moves = 0]
    /\ UNCHANGED <<rootstate, nodes, node, i, j, itermax, maxdepth, pc, ret, scan>>

\* rootstate.do_move(m)
GameMoveOriginal ==
    /\ pc = "game"
    /\ i < MaxMoves
    /\ \E m \in GetMoves(heap, rootstate) :
          LET r == DoMove(heap, rootstate, m)
          IN  /\ heap' = r.heap
              /\ rootstate' = r.st
              /\ pc' = IF r.raised THEN "error" ELSE "game"
              /\ hist' = [hist EXCEPT
                            !.op = IF r.raised THEN "do_move_raise" ELSE "do_move",
                            !.tgt = "rootstate", !.move = m,
                            !.error = IF r.raised THEN "IndexError" ELSE @]
    /\ i' = i + 1
    /\ UNCHANGED <<state, nodes, node, j, itermax, maxdepth, ret, scan>>

\* state.do_move(m) on the clone
GameMoveClone ==
    /\ pc = "game"
    /\ i < MaxMoves
    /\ state # NoState
    /\ \E m \in GetMoves(heap, state) :
          LET r == DoMove(heap, state, m)
          IN  /\ StateDoMove(m)
              /\ pc' = IF r.raised THEN "error" ELSE "game"
    /\ i' = i + 1
    /\ UNCHANGED <<rootstate, nodes, node, j, itermax, maxdepth, ret, scan>>

NextGame == GameClone \/ GameMoveOriginal \/ GameMoveClone

SpecGame == InitGame /\ [][NextGame]_vars

---------------------------------------------------------------------------
\* The robot in the game: the server draws the snakes into the world, the
\* robot scans the first frame for the chains (initial = True), brings the
\* chains up to date on every frame and builds the GameState the search of
\* specification Spec starts from.  The world is the list at location 1,
\* self._players the list at location 2.

Snake(cells, color) == [cells |-> cells, color |-> color]

\* the cells of the wall around the 6 x 5 world
WallCells ==
    {p \in {Pos(x, y) : x \in 0..5, y \in 0..4} :
        p.x = 0 \/ p.x = 5 \/ p.y = 0 \/ p.y = 4}

\* the symbol and color the server draws at cell p of a snake
DrawnAt(truth, p) ==
    LET n == CHOOSE a \in DOMAIN truth :
                 \E m \in DOMAIN truth[a].cells : truth[a].cells[m] = p
        c == truth[n].cells
        m == CHOOSE b \in DOMAIN c : c[b] = p
    IN  Cell(IF m = 1 THEN CH_HEAD ELSE IF m = Len(c) THEN CH_TAIL ELSE CH_BODY,
             truth[n].color)

\* the world with the snakes of `truth` drawn into it
Render(truth) ==
    LET drawn == UNION {{truth[n].cells[m] : m \in DOMAIN truth[n].cells} :
                          n \in DOMAIN truth}
    IN  MakeTerrain(6, 5,
            [p \in WallCells \cup drawn |->
                IF p \in drawn THEN DrawnAt(truth, p) ELSE Cell(CH_STONE, NoColor)])

\* The first frames: a straight snake of three cells facing an opponent of
\* two, a coiled snake whose tail lies next to its second cell, a coiled
\* snake whose tail lies next to its head, the opponent alone, no snake at
\* all, and the robot's snake alone.
ScanPair ==
    <<Snake(<<Pos(3, 1), Pos(2, 1), Pos(1, 1)>>, MyColor),
      Snake(<<Pos(2, 3), Pos(3, 3)>>, OtherColor)>>
ScanCoil ==
    <<Snake(<<Pos(3, 1), Pos(2, 1), Pos(1, 1), Pos(1, 2), Pos(2, 2)>>, MyColor)>>
ScanHook ==
    <<Snake(<<Pos(1, 1), Pos(1, 2), Pos(2, 2), Pos(2, 1)>>, MyColor)>>
ScanNoOwn == <<Snake(<<Pos(2, 3), Pos(3, 3)>>, OtherColor)>>
ScanEmpty == <<>>
ScanAlone == <<Snake(<<Pos(2, 2), Pos(1, 2)>>, MyColor)>>

ScanLayouts == {ScanPair, ScanCoil, ScanHook, ScanNoOwn, ScanEmpty, ScanAlone}

\* what one snake can look like on the next frame: gone, or advanced by one
\* cell into a void cell, grown by the cell or not
SnakeNext(t, s) ==
    IF s.cells = <<>> THEN {s}
    ELSE {Snake(<<>>, s.color)} \cup
         {Snake(<<Pos(s.cells[1].x + d.xdir, s.cells[1].y + d.ydir)>>
                  \o (IF grow THEN s.cells
                      ELSE SubSeq(s.cells, 1, Len(s.cells) - 1)), s.color) :
             d \in {e \in Actions :
                      TerrainAt(t, Pos(s.cells[1].x + e.xdir, s.cells[1].y + e.ydir))
                        = VoidCell},
             grow \in BOOLEAN}

\* the snakes on the next frame: every snake changes, no two heads meet
TruthNext(t, truth) ==
    IF Len(truth) = 0 THEN {<<>>}
    ELSE IF Len(truth) = 1 THEN {<<a>> : a \in SnakeNext(t, truth[1])}
    ELSE {n \in {<<a, b>> : a \in SnakeNext(t, truth[1]),
                             b \in SnakeNext(t, truth[2])} :
             n[1].cells = <<>> \/ n[2].cells = <<>>
             \/ n[1].cells[1] # n[2].cells[1]}

InitScan ==
    \E truth \in ScanLayouts :
        /\ heap = [l \in Locs |-> IF l = 1 THEN Render(truth) ELSE Unused]
        /\ rootstate = NoState
        /\ state = NoState
        /\ nodes = <<>>
        /\ node = 0
        /\ i = 0
        /\ j = 0
        /\ itermax = 0
        /\ maxdepth = 0
        /\ pc = "heads"
        /\ ret = NoVector
        /\ scan = [ScanIdle EXCEPT !.truth = truth, !.was = truth]
        /\ hist = [root0 |-> NoState, leaves |-> <<>>, finals |-> <<>>,
                   op |-> "none", tgt |-> "none", move |-> NoVector,
                   moves |-> 0, error |-> "none"]

\* the locals of _find_snake_rest(head, ...) at its first loop test
WalkFrom(k, head) ==
    [scan EXCEPT !.k = k, !.snake = <<head>>, !.previous = head,
                 !.position = head]

\* if initial: self._players = self._find_snake_heads(), up to the first
\* call of _find_snake_rest
ScanHeads ==
    /\ pc = "heads"
    /\ LET players == FindSnakeHeads(heap[1])
       IN  /\ heap' = [heap EXCEPT ![2] = players]
           /\ scan' = WalkFrom(0, players[1][1])
    /\ pc' = "rest"
    /\ hist' = [hist EXCEPT !.op = "heads"]
    /\ UNCHANGED <<rootstate, state, nodes, node, i, j, itermax, maxdepth, ret>>

\* one turn of the loop `while True` of _find_snake_rest on chain scan.k; at
\* its break the chain is stored in self._players[index] and the walk of the
\* next chain starts, or the update loop after the last one
ScanRest ==
    /\ pc = "rest"
    /\ Len(scan.snake) < MaxWalk
    /\ IF scan.position = NonePos
       THEN /\ Raise("AttributeError")
            /\ UNCHANGED <<heap, scan>>
       ELSE LET nx == NextFrom(heap[1], scan.position, scan.previous, scan.k = 0, 1)
                players == [heap[2] EXCEPT ![scan.k + 1] = scan.snake]
            IN  IF nx.raised
                THEN /\ Raise("IndexError")
                     /\ UNCHANGED <<heap, scan>>
                ELSE IF nx.pos # NonePos
                THEN /\ scan' = [scan EXCEPT !.snake = Append(@, nx.pos),
                                             !.position = nx.pos,
                                             !.previous = scan.position]
                     /\ pc' = "rest"
                     /\ hist' = [hist EXCEPT !.op = "rest"]
                     /\ UNCHANGED heap
                ELSE /\ heap' = [heap EXCEPT ![2] = players]
                     /\ hist' = [hist EXCEPT !.op = "rest_done"]
                     /\ IF scan.k + 1 < Len(players)
                        THEN /\ scan' = WalkFrom(scan.k + 1, players[scan.k + 2][1])
                             /\ pc' = "rest"
                        ELSE /\ scan' = [scan EXCEPT !.k = 0, !.snake = <<>>,
                                                     !.position = NonePos,
                                                     !.previous = NonePos]
                             /\ pc' = "update"
    /\ UNCHANGED <<rootstate, state, nodes, node, i, j, itermax, maxdepth, ret>>

\* one turn of the loop `for player in self._players` of next_direction
ScanUpdate ==
    /\ pc = "update"
    /\ LET r == UpdatePlayer(heap[1], heap[2][scan.k + 1])
       IN  /\ heap' = [heap EXCEPT ![2][scan.k + 1] = r.player]
           /\ IF r.error # "none"
              THEN /\ Raise(r.error)
                   /\ UNCHANGED scan
              ELSE /\ hist' = [hist EXCEPT !.op = "update"]
                   /\ IF scan.k + 1 < Len(heap[2])
                      THEN /\ scan' = [scan EXCEPT !.k = @ + 1]
                           /\ pc' = "update"
                      ELSE /\ scan' = [scan EXCEPT !.k = 0]
                           /\ pc' = "build"
    /\ UNCHANGED <<rootstate, state, nodes, node, i, j, itermax, maxdepth, ret>>

\* state = GameState(self.world, self._players); the search UCT then runs on
\* it is specification Spec, which leaves the world and the chains as they are
ScanBuild ==
    /\ pc = "build"
    /\ LET g == GameStateInit(heap, 1, 2, 3, 4)
       IN  /\ heap' = g.heap
           /\ rootstate' = g.st
    /\ pc' = "decided"
    /\ hist' = [hist EXCEPT !.op = "build"]
    /\ UNCHANGED <<state, nodes, node, i, j, itermax, maxdepth, ret, scan>>

\* the server draws the next frame and calls next_direction(initial = False)
Frame ==
    /\ pc = "decided"
    /\ scan.frames < MaxFrames
    /\ \E truth \in TruthNext(heap[1], scan.truth) :
          /\ heap' = [heap EXCEPT ![1] = Render(truth)]
          /\ scan' = [scan EXCEPT !.truth = truth, !.was = scan.truth,
                                  !.frames = @ + 1, !.k = 0]
    /\ pc' = "update"
    /\ hist' = [hist EXCEPT !.op = "frame"]
    /\ UNCHANGED <<rootstate, state, nodes, node, i, j, itermax, maxdepth, ret>>

NextScan == ScanHeads \/ ScanRest \/ ScanUpdate \/ ScanBuild \/ Frame

SpecScan == InitScan /\ [][NextScan]_vars

---------------------------------------------------------------------------
\* Vocabulary of the properties.

\* the step just taken ran do_move on the working state (to completion, or
\* up to the terrain read that raised)
MovedState == hist'.tgt = "state" /\ hist'.op \in {"do_move", "do_move_raise"}
MovedOriginal == hist'.tgt = "rootstate" /\ hist'.op \in {"do_move", "do_move_raise"}

\* the search stands between two iterations, or has returned
AtBoundary == pc \in {"iter", "done"}

\* node n lies on the parent path from node leaf up to the root
RECURSIVE OnPath(_, _, _)
OnPath(ns, n, leaf) ==
    IF leaf = 0 THEN FALSE
    ELSE IF leaf = n THEN TRUE
    ELSE OnPath(ns, n, ns[leaf].parentNode)

\* the number of completed iterations whose back-propagation passed node n
Passes(n) ==
    Cardinality({k \in 1..Len(hist.leaves) : k <= i /\ OnPath(nodes, n, hist.leaves[k])})

\* every position of every chain of a GameState lies inside the grid
ChainsInGrid(h, self) ==
    \A k \in 1..Len(h[self.players]) :
        \A n \in 1..Len(h[self.players][k]) :
            InGrid(h[self.terrain], h[self.players][k][n])

\* the four neighbours of a position
Neighbours(p) ==
    {Pos(p.x + 1, p.y), Pos(p.x - 1, p.y), Pos(p.x, p.y + 1), Pos(p.x, p.y - 1)}

\* the search was started on a 3x3 grid without obstacles, with one agent
\* of length 1 at the center and no prior action
OpenCase ==
    /\ SIZE_X(hist.root0.terrain) = 3
    /\ SIZE_Y(hist.root0.terrain) = 3
    /\ \A x \in 0..2, y \in 0..2 :
          hist.root0.terrain[x][y][1] \in {CH_VOID, CH_HEAD}
    /\ hist.root0.players = << <<Pos(1, 1)>> >>
    /\ hist.root0.last_action = <<NoVector, NoVector>>

\* the search was started with agent 0's head enclosed: each of its four
\* neighbours is a cell of a tracked chain or a stone/wall cell
TrappedCase ==
    \A p \in Neighbours(hist.root0.players[1][1]) :
        /\ InGrid(hist.root0.terrain, p)
        /\ \/ \E k \in 1..Len(hist.root0.players) :
                 \E n \in 1..Len(hist.root0.players[k]) : hist.root0.players[k][n] = p
           \/ hist.root0.terrain[p.x][p.y][1] \in ObstacleChars

---------------------------------------------------------------------------
\* C1: on the 3x3 open grid with one agent of length 1 at the center, the
\* search never fails, no do_move reads a terrain cell outside the grid (the
\* cell read becomes the head of the chain, so every chain position stays in
\* the grid), and the value returned is one of the four directions.
C1_OpenGridSearchSucceeds ==
    OpenCase =>
        /\ pc # "error"
        /\ (state # NoState => ChainsInGrid(heap, state))
        /\ (pc = "done" => ret \in Actions)

\* C2: at every iteration boundary each node's visits equal the number of
\* completed iterations whose back-propagation path passed through it, each
\* non-root node's visits are at most its parent's, and once the search has
\* returned the root's visits equal itermax.
C2_VisitsCountIterations ==
    AtBoundary =>
        /\ \A n \in 1..Len(nodes) : nodes[n].visits = Passes(n)
        /\ \A n \in 2..Len(nodes) : nodes[n].visits <= nodes[nodes[n].parentNode].visits
        /\ nodes[1].visits = i
        /\ (pc = "done" => nodes[1].visits = itermax)
        /\ (pc = "done" =>
               \A k \in 1..Len(nodes[1].childNodes) :
                   nodes[nodes[1].childNodes[k]].visits <= itermax)

\* a search of five iterations has returned and some child of the root was
\* visited twice
C2_Witness ==
    /\ pc = "done"
    /\ itermax = 5
    /\ \E n \in 2..Len(nodes) : nodes[n].visits = 2 /\ nodes[n].parentNode = 1

\* C3: throughout a search the root state keeps the value it had when the
\* search started: chains, scores, last actions, just-moved index, terrain.
C3_RootStateUnchanged == Value(heap, rootstate) = hist.root0

\* the search has returned and its last working clone holds moved chains,
\* a recorded action and a changed score
C3_Witness ==
    /\ pc = "done"
    /\ hist.moves >= 2
    /\ heap[state.players] # hist.root0.players
    /\ heap[state.last_action] # hist.root0.last_action
    /\ heap[state.scores] # hist.root0.scores

\* the chains, scores and last actions of a GameState, by value
Mutable(h, self) ==
    [players |-> h[self.players], last_action |-> h[self.last_action],
     scores |-> h[self.scores]]

\* C4: after c = s.clone(), a do_move on c leaves the chains, scores and last
\* actions of s as they were, and a do_move on s leaves those of c as they
\* were.
C4_CloneIndependent ==
    [][/\ (MovedState => Mutable(heap', rootstate') = Mutable(heap, rootstate))
       /\ (MovedOriginal /\ state # NoState =>
               Mutable(heap', state') = Mutable(heap, state))]_vars

\* the original was moved after its clone had been moved
C4_Witness ==
    /\ pc = "game"
    /\ state # NoState
    /\ hist.op = "do_move"
    /\ hist.tgt = "rootstate"
    /\ hist.moves >= 1
    /\ heap[state.players] # heap[rootstate.players]

\* the legal moves the claim gives an agent whose last action is `last`
LegalAfter(last) == IF last = NoVector THEN Actions ELSE Actions \ {OppositeAction(last)}

\* C5: whenever do_move moves an agent, get_moves() on the state before the
\* move was the set for that agent's own last action: all four directions
\* if it had none, else the three other than its exact opposite; on the root
\* state, which has no recorded action, it is all four directions.
C5_LegalMovesOfMover ==
    [][/\ (MovedState =>
             GetMoves(heap, state)
               = LegalAfter(heap[state.last_action][state'.playerJustMoved + 1]))
       /\ GetMoves(heap, rootstate) = Actions
       /\ nodes[1].untriedMoves \subseteq Actions]_vars

\* in a two-agent search an agent that had moved before has moved again
C5_Witness ==
    /\ Len(hist.root0.players) = 2
    /\ hist.op = "do_move"
    /\ hist.moves >= 3
    /\ heap[state.last_action][1] # NoVector
    /\ heap[state.last_action][2] # NoVector
    /\ Cardinality(GetMoves(heap, state)) = 3

\* the child of the root the claim names: of maximal visits among the
\* root's children, and the latest created among those
LastMostVisited ==
    LET ch   == nodes[1].childNodes
        maxv == CHOOSE v \in {nodes[ch[k]].visits : k \in 1..Len(ch)} :
                    \A k \in 1..Len(ch) : nodes[ch[k]].visits <= v
        last == CHOOSE k \in 1..Len(ch) :
                    /\ nodes[ch[k]].visits = maxv
                    /\ \A l \in 1..Len(ch) : nodes[ch[l]].visits = maxv => l <= k
    IN  ch[last]

\* C6: the search returns the move of the root's child of maximal visits,
\* the latest created one when several share the maximum.
C6_ReturnsLastMostVisited == pc = "done" => ret = nodes[LastMostVisited].move

\* the search has returned with two children of the root sharing the
\* maximal visit count
C6_Witness ==
    /\ pc = "done"
    /\ Len(nodes[1].childNodes) >= 2
    /\ nodes[nodes[1].childNodes[1]].visits = nodes[LastMostVisited].visits
    /\ LastMostVisited # nodes[1].childNodes[1]

\* C7 as claimed: with two agents every do_move flips the just-moved index,
\* the first move from a root being agent 0's; with one agent no do_move
\* changes the just-moved index, the first call on a fresh state included.
C7_Original ==
    [][MovedState =>
         IF Len(heap[state.players]) > 1
         THEN /\ state'.playerJustMoved = 1 - state.playerJustMoved
              /\ (hist.moves = 0 => state'.playerJustMoved = 0)
         ELSE state'.playerJustMoved = state.playerJustMoved]_vars

\* C7 as amended: with two agents every do_move flips the just-moved index,
\* the first move from a root being agent 0's; with one agent every do_move
\* moves agent 0 and leaves the just-moved index at 0, so the index changes
\* on the first call on a fresh state (from 1 to 0) and on no later call.
C7_TurnRule ==
    [][MovedState =>
         /\ heap'[state'.last_action][state'.playerJustMoved + 1] = hist'.move
         /\ IF Len(heap[state.players]) > 1
            THEN /\ state'.playerJustMoved = 1 - state.playerJustMoved
                 /\ (hist.moves = 0 => state'.playerJustMoved = 0)
            ELSE /\ state'.playerJustMoved = 0
                 /\ (hist.moves = 0 => state.playerJustMoved = 1)
                 /\ (hist.moves >= 1 =>
                        state'.playerJustMoved = state.playerJustMoved)]_vars

\* two agents have moved in turn three times on one working state
C7_Witness ==
    /\ Len(hist.root0.players) = 2
    /\ hist.op = "do_move"
    /\ hist.moves = 3
    /\ state.playerJustMoved = 0

C9_TrappedSearchSucceeds ==
    TrappedCase =>
        /\ nodes[1].untriedMoves
             \cup {nodes[nodes[1].childNodes[k]].move : k \in 1..Len(nodes[1].childNodes)}
             = Actions
        /\ (hist.op = "do_move" => heap[state.scores][state.playerJustMoved + 1] = -1000)
        /\ pc # "error"
        /\ (pc = "done" => ret \in Actions)

\* C10: no do_move changes the length of a chain: the chains of the working
\* state and of the root state have the lengths the search started with.
C10_ChainLengthsConstant ==
    /\ \A k \in 1..Len(hist.root0.players) :
          Len(heap[rootstate.players][k]) = Len(hist.root0.players[k])
    /\ state # NoState =>
          /\ Len(heap[state.players]) = Len(hist.root0.players)
          /\ \A k \in 1..Len(hist.root0.players) :
                Len(heap[state.players][k]) = Len(hist.root0.players[k])

\* a chain of two cells has been moved three times
C10_Witness ==
    /\ hist.op = "do_move"
    /\ hist.moves >= 3
    /\ Len(hist.root0.players) = 1
    /\ Len(heap[state.players][1]) = 2
    /\ heap[state.players][1] # hist.root0.players[1]

---------------------------------------------------------------------------
\* The scan of the first frame.

\* the scan of the first frame has run (the robot is at or past the walk of
\* the chains, no later frame has been drawn)
FirstScanDone ==
    /\ pc \in {"rest", "update", "build", "decided", "error"}
    /\ hist.root0 = NoState
    /\ scan.frames = 0

\* the agents (own, opponent) the first frame shows a head of
HeadsDrawn == {own \in BOOLEAN : HeadsOf(heap[1], own) # {}}

\* C11 as claimed: when the first frame shows no head for an agent, the scan
\* leaves that agent out: self._players holds one chain per agent that has
\* a head, no chain holds None, and the decision does not fail.
C11_AbsentAgentOmitted ==
    (FirstScanDone /\ HeadsDrawn # BOOLEAN) =>
        /\ Len(heap[2]) = Cardinality(HeadsDrawn)
        /\ \A k \in 1..Len(heap[2]) : \A n \in 1..Len(heap[2][k]) :
              heap[2][k][n] # NonePos
        /\ pc # "error"

\* the cells, head first, of the drawn snake of the robot's color (own) or
\* of the other color
TrueCells(own) ==
    LET S == {n \in DOMAIN scan.truth : (scan.truth[n].color = MyColor) = own}
    IN  IF S = {} THEN <<>> ELSE scan.truth[CHOOSE n \in S : TRUE].cells

IsPrefix(a, b) == Len(a) <= Len(b) /\ a = SubSeq(b, 1, Len(a))

\* C12 as claimed: on every snake layout, coiled ones included, the walk of
\* _find_snake_rest follows the snake's cells in body order (so it ends)
\* and the chain it stores is exactly the snake's cells, head first and
\* tail last.
C12_WalkReturnsSnake ==
    /\ (pc = "rest" /\ scan.position # NonePos) =>
          IsPrefix(scan.snake, TrueCells(scan.k = 0))
    /\ (pc = "update" /\ hist.op = "rest_done") =>
          \A k \in 1..Len(heap[2]) : heap[2][k] = TrueCells(k = 1)

---------------------------------------------------------------------------
\* The update of the chains on a frame.

\* the cells of the snake as drawn on the frame before
WasCells(own) ==
    LET S == {n \in DOMAIN scan.was : (scan.was[n].color = MyColor) = own}
    IN  IF S = {} THEN <<>> ELSE scan.was[CHOOSE n \in S : TRUE].cells

\* the cells among p and its four neighbours that show the symbol in the color
FoundAt(t, p, char, color) ==
    {q \in Neighbours(p) \cup {p} : InGrid(t, q) /\ TerrainAt(t, q) = Cell(char, color)}

\* the chain the claimed update rule leaves: one entry more at the front if
\* the head shows at a new position, one entry less at the back if the tail
\* shows at a new position, the chain as it was otherwise
ClaimedUpdate(t, chain, color) ==
    LET H == FoundAt(t, chain[1], CH_HEAD, color) \ {chain[1]}
        c1 == IF H # {} THEN <<CHOOSE q \in H : TRUE>> \o chain ELSE chain
        T == FoundAt(t, c1[Len(c1)], CH_TAIL, color) \ {c1[Len(c1)]}
    IN  IF T # {} THEN SubSeq(c1, 1, Len(c1) - 1) ELSE c1

\* the step updates chain number scan.k, which held the cells the snake
\* showed on the frame before
UpdatesTracked ==
    /\ pc = "update"
    /\ hist'.op \in {"update", "raise"}
    /\ heap[2][scan.k + 1] = WasCells(scan.k = 0)

\* C13 as claimed: the update of a chain adds the head found at a new
\* position at the front, drops the last entry when the tail is found at a
\* new position, and leaves the chain unchanged, without failing, when the
\* symbol is found at its previous position or not found at all.
C13_UpdateRule ==
    [][UpdatesTracked =>
          /\ heap'[2][scan.k + 1]
               = ClaimedUpdate(heap[1], heap[2][scan.k + 1],
                               IF scan.k = 0 THEN MyColor ELSE OtherColor)
          /\ pc' # "error"]_vars

---------------------------------------------------------------------------
\* The chains under do_move.

\* the positions of a chain are pairwise distinct
Distinct(chain) ==
    \A a, b \in 1..Len(chain) : a # b => chain[a] # chain[b]

\* C14 as claimed: started from chains of pairwise distinct positions, every
\* chain of the original and of its clone has pairwise distinct positions
\* after any sequence of do_move calls, collisions included.
C14_ChainsDistinct ==
    \A st \in {rootstate, state} \ {NoState} :
        \A k \in 1..Len(heap[st.players]) : Distinct(heap[st.players][k])

---------------------------------------------------------------------------
\* The sentinel score.

\* C15 as claimed: once do_move has set an agent's score on the working
\* state to -1000, get_result(agent) is still -1000 after every further
\* do_move on that state.
C15_SentinelSticks ==
    [][\A agent \in {0, 1} :
          (MovedState /\ state # NoState /\ GetResult(heap, state, agent) = -1000)
              => GetResult(heap', state', agent) = -1000]_vars

---------------------------------------------------------------------------
\* Back-propagation.

\* the number of nodes from node n up to the root, the root not counted
RECURSIVE Depth(_, _)
Depth(ns, n) == IF ns[n].parentNode = 0 THEN 0 ELSE 1 + Depth(ns, ns[n].parentNode)

\* the agent whose move leads to a node of the given depth: agent 0 always
\* in a one-agent search, agents 0 and 1 in turn, agent 0 first, with two
MoverAt(depth) ==
    IF Len(hist.root0.players) > 1 THEN (depth + 1) % 2 ELSE 0

\* the sum, over the completed iterations whose back-propagation passed node
\* n, of the agent's score on the working state the iteration ended with
RECURSIVE ResultsThrough(_, _, _)
ResultsThrough(n, agent, k) ==
    IF k = 0 THEN 0
    ELSE ResultsThrough(n, agent, k - 1)
         + (IF OnPath(nodes, n, hist.leaves[k]) THEN hist.finals[k][agent + 1] ELSE 0)

\* C16: every node below the root records the agent whose move produced it
\* (agents 0 and 1 in turn down every path of a two-agent search, agent 0 at
\* depth 1); and between iterations every node has been updated once per
\* iteration whose final node lies at or below it, each time with the score
\* of its recorded agent on that iteration's final working state, and by no
\* other iteration.
C16_BackpropAttribution ==
    /\ \A n \in 2..Len(nodes) :
          nodes[n].playerJustMoved = MoverAt(Depth(nodes, n))
    /\ AtBoundary =>
          \A n \in 1..Len(nodes) :
              /\ nodes[n].visits = Passes(n)
              /\ nodes[n].wins
                   = ResultsThrough(n, nodes[n].playerJustMoved, Len(hist.finals))

\* a two-agent search has completed an iteration that ended on a node of
\* depth 2, recorded for agent 1, after moves that changed both scores
C16_Witness ==
    /\ AtBoundary
    /\ Len(hist.root0.players) = 2
    /\ \E n \in 2..Len(nodes) :
          /\ Depth(nodes, n) = 2
          /\ nodes[n].playerJustMoved = 1
          /\ nodes[n].visits = 1
          /\ nodes[n].wins # nodes[nodes[n].parentNode].wins
          /\ nodes[n].wins # 0

---------------------------------------------------------------------------
\* The clone as a copy.

\* C17 as claimed: the clone of a game state, taken after any number of
\* do_move calls, has the chains, scores, last actions and just-moved index
\* of the original, so get_moves() returns the same set on both and the
\* next do_move moves the same agent on both.
C17_CloneEquivalent ==
    [][(pc = "game" /\ hist'.op = "clone") =>
          /\ Mutable(heap', state') = Mutable(heap, rootstate)
          /\ state'.playerJustMoved = rootstate.playerJustMoved
          /\ GetMoves(heap', state') = GetMoves(heap, rootstate)
          /\ DoMovePlayer(heap', state') = DoMovePlayer(heap, rootstate)]_vars

---------------------------------------------------------------------------
\* The rollout.

\* get_moves() on the states of the search returns three or four moves
MovesNeverEmpty ==
    /\ Cardinality(GetMoves(heap, rootstate)) \in {3, 4}
    /\ state # NoState => Cardinality(GetMoves(heap, state)) \in {3, 4}

\* no node is terminal: it has an untried move or a child
NoTerminalNode ==
    \A n \in 1..Len(nodes) : nodes[n].untriedMoves # {} \/ nodes[n].childNodes # <<>>

\* a step of the rollout applies one move and leaves the tree alone; the
\* rollout goes on until it has applied maxdepth moves
RolloutStepFull ==
    pc = "rollout" =>
        /\ hist'.op = "do_move"
        /\ j' = j + 1
        /\ nodes' = nodes
        /\ pc' = IF j' < maxdepth THEN "rollout" ELSE "backprop"

\* C18 as claimed: get_moves() never returns an empty set (three or four
\* moves), no node is terminal, every rollout applies exactly maxdepth
\* moves, never stopping early, and changes no node.
C18_RolloutRunsFullDepth ==
    [][MovesNeverEmpty /\ NoTerminalNode /\ RolloutStepFull]_vars

---------------------------------------------------------------------------
\* The shape of the tree.

\* the moves of the children of node n, in the order they were added
ChildMoves(n) ==
    [k \in 1..Len(nodes[n].childNodes) |-> nodes[nodes[n].childNodes[k]].move]

\* the sum of the visits of the children of node n, from the k-th back
RECURSIVE ChildVisits(_, _)
ChildVisits(n, k) ==
    IF k = 0 THEN 0
    ELSE nodes[nodes[n].childNodes[k]].visits + ChildVisits(n, k - 1)

\* the legal moves of the state node n was created on: the agent to move
\* next has made no move yet at the root and, in a two-agent search, at
\* depth 1; below, its last move is the node's own move with one agent and
\* the parent's move with two
MovesAtCreation(n) ==
    IF n = 1 THEN Actions
    ELSE IF Len(hist.root0.players) > 1
         THEN LegalAfter(nodes[nodes[n].parentNode].move)
         ELSE LegalAfter(nodes[n].move)

\* C19: between iterations, the moves of every node's children are
\* pairwise distinct and none of them is still untried, the untried moves
\* and the children's moves together are the legal moves of the state the
\* node was created on, the tree has one node per completed iteration
\* besides the root, every node below the root has one visit more than its
\* children together and the root as many as its children together.
C19_TreeShape ==
    AtBoundary =>
        /\ Len(nodes) = i + 1
        /\ \A n \in 1..Len(nodes) :
              LET moves == ChildMoves(n)
                  range == {moves[k] : k \in 1..Len(moves)}
              IN  /\ Distinct(moves)
                  /\ range \cap nodes[n].untriedMoves = {}
                  /\ range \cup nodes[n].untriedMoves = MovesAtCreation(n)
                  /\ nodes[n].visits
                       = (IF n = 1 THEN 0 ELSE 1)
                         + ChildVisits(n, Len(nodes[n].childNodes))

\* five iterations have completed and a node below the root has a child
C19_Witness ==
    /\ AtBoundary
    /\ i = 5
    /\ \E n \in 2..Len(nodes) :
          /\ nodes[n].childNodes # <<>>
          /\ nodes[n].visits = 2
          /\ Cardinality(nodes[n].untriedMoves) = 2

---------------------------------------------------------------------------
\* The selection.

\* C20: whenever the selection loop calls uct_select_child on a node, the
\* node has a child, at least one visit of its own and every child at least
\* one visit, so neither the division nor the logarithm fails, and the call
\* returns one of the node's children, never the placeholder 0.
C20_SelectDefined ==
    (pc = "select" /\ FullyExpanded(nodes[node])) =>
        LET ch == nodes[node].childNodes
        IN  /\ Len(ch) >= 1
            /\ nodes[node].visits >= 1
            /\ \A k \in 1..Len(ch) : nodes[ch[k]].visits >= 1
            /\ ~SelectRaises(nodes, node)
            /\ \E k \in 1..Len(ch) : UctSelectChild(nodes, node) = ch[k]

\* uct_select_child has been called on the root after four iterations and
\* has returned the child the working state was then moved to
C20_Witness ==
    /\ pc = "select"
    /\ i = 4
    /\ hist.op = "do_move"
    /\ hist.moves = 1
    /\ nodes[1].untriedMoves = {}
    /\ nodes[1].visits = 4
    /\ nodes[node].parentNode = 1
    /\ nodes[node].visits = 1

====
